---- MODULE Spec2Model ----
(***************************************************************************)
(* PyGravitas: the driver loop of main.py, the Particles physics object    *)
(* of particles.py and the SimulationLogger of simulation_logger.py.       *)
(*                                                                         *)
(* Numbers.  The program computes in IEEE binary64.  The model keeps the   *)
(* structure of that arithmetic at a reduced size: a length is an integer  *)
(* count of units of 2^-Frac pixel, and the result of every floating-point *)
(* addition or subtraction is rounded to MantBits significant bits, ties   *)
(* to even (Fl).  Time is an integer count of milliseconds (clock.tick     *)
(* returns whole milliseconds).  scipy's solve_ivp is outside the          *)
(* repository: the trial states it hands to derivative and the state it    *)
(* returns are chosen nondeterministically from finite candidate sets.     *)
(***************************************************************************)
EXTENDS Integers, Sequences, FiniteSets, TLC

VARIABLES
    pc,               \* position of main(): start, construct, loop, step, solving, wrap, log, render, finally, done
    env,              \* the environment of this run: candidate points, velocities, tick lengths, frame budget
    running,          \* main.running
    frame,            \* number of frames begun
    dt,               \* main.dt of the current frame, in ms
    simulation_time,  \* main.simulation_time, in ms
    log_accumulator,  \* main.log_accumulator, in ms
    log_calls,        \* number of logger.log() calls made by main
    error,            \* the exception that left main, "none" when there is none
    writer,           \* SimulationLogger.writer: "active" or "none"
    file,             \* SimulationLogger.file: "none", "open", "closed"
    rows,             \* data rows handed to the csv writer
    exists,           \* a Particles object has been constructed
    num_particles, radius, masses, pos, vel, forces, accelerations,
    kinetic_energy, potential_energy, total_energy,
    raw_disp,         \* calculate_forces: pairwise_disp as computed at line 95
    min_disp,         \* calculate_forces: pairwise_disp after the minimum-image line 98
    r_squared,        \* calculate_forces: r_squared of line 101
    pair_forces,      \* calculate_forces: pair_forces of line 113
    init_state,       \* step_forward: init_state
    pos_before,       \* pos when step_forward was entered
    vel_before,       \* vel when step_forward was entered
    n_evals,          \* derivative calls made by the solver in this step
    y_flat,           \* argument of the last derivative call
    dydt,             \* value returned by the last derivative call
    solver_status,    \* "idle", "running", "finished", "failed"
    wraps,            \* enforce_periodic_boundary_conditions calls in this frame
    phases,           \* the phases of this frame so far, in the order they ran
    drawn             \* pixel coordinates handed to pg.draw.circle in the last render

vars == <<pc, env, running, frame, dt, simulation_time, log_accumulator, log_calls,
          error, writer, file, rows, exists, num_particles, radius, masses, pos, vel,
          forces, accelerations, kinetic_energy, potential_energy, total_energy,
          raw_disp, min_disp, r_squared, pair_forces, init_state, pos_before, vel_before,
          n_evals, y_flat, dydt, solver_status, wraps, phases, drawn>>

---------------------------------------------------------------------------
\* Bounds of the model.

\* a length unit is 2^-Frac pixel
Frac == 2
\* significant bits kept by a rounded operation (53 in binary64)
MantBits == 11
\* largest particle count handed to the constructor
MaxParticles == 3
\* derivative calls the solver makes in one step at most
MaxEvals == 2
\* frames of a run of the timing specification
MaxFrames == 14
\* frames of a run of the physics specification
MaxFramesPhys == 1
\* energies are held in units of G_SCALED / EnergyScale
EnergyScale == 1000

---------------------------------------------------------------------------
\* constants.py

NUM_DIM == 2
SCREEN_WIDTH == 1280
SCREEN_HEIGHT == 720
MASS_LOWER_BOUND == 1
MASS_UPPER_BOUND == 10
G_SCALED == 1000000
\* 1 / EPS: the softened distance of two coincident particles is EPS pixel
EPS_INV == 10000
RADIUS == 10
LOG_FREQUENCY_HZ == 10
\* LOG_INTERVAL = 1.0 / LOG_FREQUENCY_HZ seconds, in ms
LOG_INTERVAL == 1000 \div LOG_FREQUENCY_HZ
\* clock.tick(60): the frame-rate target of main.py
TARGET_FPS == 60
\* lower_bound_vel / upper_bound_vel of Particles.__init__
VelLower == -150
VelUpper == 150

---------------------------------------------------------------------------
\* Arithmetic.

Abs(x) == IF x < 0 THEN -x ELSE x

Sign(x) == IF x < 0 THEN -1 ELSE 1

\* units per pixel
Unit == 2 ^ Frac

Px(n) == n * Unit

\* self.screen_dims, in units
screen_dims == <<Px(SCREEN_WIDTH), Px(SCREEN_HEIGHT)>>

\* number of low bits a magnitude n loses when held in MantBits bits
RECURSIVE DropBits(_)
DropBits(n) == IF n < 2 ^ MantBits THEN 0 ELSE 1 + DropBits(n \div 2)

\* round-to-nearest, ties-to-even, of a magnitude n to a multiple of q
RoundTo(n, q) ==
    LET m == n \div q
        r == n % q
    IN  IF 2 * r > q \/ (2 * r = q /\ m % 2 = 1) THEN (m + 1) * q ELSE m * q

\* the floating-point number nearest to x
Fl(x) ==
    LET n == Abs(x)
    IN  IF n < 2 ^ MantBits THEN x ELSE Sign(x) * RoundTo(n, 2 ^ DropBits(n))

\* np.round(a / b) for b > 0: the integer nearest to a/b, halves to the even one
RoundHalfEven(a, b) ==
    LET f == a \div b
        r == a % b
    IN  IF 2 * r < b THEN f
        ELSE IF 2 * r > b THEN f + 1
        ELSE IF f % 2 = 0 THEN f ELSE f + 1

\* C fmod(x, b) for b > 0: exact, with the sign of x
Fmod(x, b) == IF x >= 0 THEN x % b ELSE -((-x) % b)

\* np.mod(x, b) on floats for b > 0 (npy_divmod): fmod, then "mod += b" when the
\* signs differ, which is a rounded addition
NpMod(x, b) ==
    LET m == Fmod(x, b)
    IN  IF m = 0 THEN 0 ELSE IF m < 0 THEN Fl(m + b) ELSE m

\* a / b for b > 0, truncated symmetrically, then rounded
FlDiv(a, b) == Fl(Sign(a) * (Abs(a) \div b))

RECURSIVE ISqrtBit(_, _, _)
ISqrtBit(n, s, bit) ==
    IF bit = 0 THEN s
    ELSE LET t == s + bit
         IN  ISqrtBit(n, IF t * t <= n THEN t ELSE s, bit \div 2)

\* floor of the square root of n, 0 <= n < 2^30
ISqrt(n) == ISqrtBit(n, 0, 16384)

---------------------------------------------------------------------------
\* Arrays.  An (N x 2) array is a sequence of N pairs; a flat array is a sequence.

\* an ndarray holds its elements: the sequence a with every element computed once
ndarray(a) == a \o <<>>

\* ndarray.flatten() of an (N x NUM_DIM) array: row-major
FlattenMut(a) == [k \in 1..(NUM_DIM * Len(a)) |-> a[((k - 1) % Len(a)) + 1][((k - 1) \div Len(a)) + 1]]
Flatten(a) == [k \in 1..(NUM_DIM * Len(a)) |-> a[((k - 1) \div NUM_DIM) + 1][((k - 1) % NUM_DIM) + 1]]

\* flat.reshape(n, NUM_DIM)
Reshape(flat, n) == ndarray([i \in 1..n |-> <<flat[NUM_DIM * (i - 1) + 1], flat[NUM_DIM * (i - 1) + 2]>>])

\* np.concatenate((p.flatten(), v.flatten()))
Pack(p, v) == Flatten(p) \o Flatten(v)

\* y[0 : num_pos_coords].reshape(num_particles, NUM_DIM)
UnpackPos(y, n) == Reshape(SubSeq(y, 1, NUM_DIM * n), n)

\* y[num_pos_coords :].reshape(num_particles, NUM_DIM)
UnpackVel(y, n) == Reshape(SubSeq(y, NUM_DIM * n + 1, Len(y)), n)

Zeros(n) == [i \in 1..n |-> <<0, 0>>]

Neg(v) == <<-v[1], -v[2]>>

\* np.triu_indices(n, k=1): the pairs (i, j), i < j, row by row
RowPairs(i, n) == [j \in 1..(n - i) |-> <<i, i + j>>]

RECURSIVE PairsFrom(_, _)
PairsFrom(i, n) == IF i >= n THEN <<>> ELSE RowPairs(i, n) \o PairsFrom(i + 1, n)

unique_pair_indices(n) == PairsFrom(1, n)

---------------------------------------------------------------------------
\* Particles.calculate_forces

\* line 95: pos[j] - pos[i], a rounded subtraction per component
RawDisp(p, pairs) ==
    ndarray([k \in 1..Len(pairs) |->
        LET pi == p[pairs[k][1]]
            pj == p[pairs[k][2]]
        IN  <<Fl(pj[1] - pi[1]), Fl(pj[2] - pi[2])>>])

\* line 98 for one component: d - L * np.round(d / L)
MinImageMut(d, L) == Fl(d - L * (d \div L))
MinImage(d, L) == Fl(d - L * RoundHalfEven(d, L))

MinDisp(raw) ==
    ndarray([k \in 1..Len(raw) |->
        LET d == raw[k]
        IN  <<MinImage(d[1], screen_dims[1]), MinImage(d[2], screen_dims[2])>>])

\* line 101 without the softening term: the squared length of d, in units^2.
\* r_squared = SumSq(d) + EPS_SQUARED, and 0 < EPS_SQUARED < 1 unit^2.
SumSq(d) == d[1] * d[1] + d[2] * d[2]

\* the softening added to squared distances, counted in softenings.  particles.py
\* imports the name EPS_SQUARED from constants, where src/constants.py defines only
\* EPS; the constant is taken from the specification: a fixed small positive
\* constant added to the squared separation, here the square of EPS, which is
\* smaller than one unit^2.
EPS_SQUARED == 1

\* line 101: r_squared = np.sum(np.square(d)) + EPS_SQUARED, held as the pair
\* <<sum of squares in units^2, number of softenings added>>
RSquaredMut(d) == <<SumSq(d), 0>>
RSquared(d) == <<SumSq(d), EPS_SQUARED>>

RSquaredAll(md) == ndarray([k \in 1..Len(md) |-> RSquared(md[k])])

\* a >= b for two squared distances held as such pairs
SqGeq(a, b) == a[1] > b[1] \/ (a[1] = b[1] /\ a[2] >= b[2])

\* lines 104-113 for one pair with displacement d and masses mi, mj.  With d = 0
\* the normalised displacement 0 / sqrt(EPS_SQUARED) is 0 and so is the pair force;
\* otherwise the force magnitude G * mi * mj / r_squared (r_squared in pixel^2)
\* is spread over the components of d / sqrt(r_squared).
PairForce(d, mi, mj) ==
    LET s == SumSq(d)
    IN  IF s = 0 THEN <<0, 0>>
        ELSE LET mag == (G_SCALED * mi * mj * Unit * Unit) \div s
                 q   == mag \div ISqrt(s)
             IN  <<Fl(q * d[1]), Fl(q * d[2])>>

PairForces(md, m, pairs) ==
    ndarray([k \in 1..Len(pairs) |-> PairForce(md[k], m[pairs[k][1]], m[pairs[k][2]])])

\* np.add.at(f, indices, vals): one rounded addition per entry, in order
RECURSIVE AddAt(_, _, _, _)
AddAt(f, idx, vals, k) ==
    IF k > Len(idx) THEN f
    ELSE LET v == vals[k]
         IN  AddAt([f EXCEPT ![idx[k]] = <<Fl(@[1] + v[1]), Fl(@[2] + v[2])>>], idx, vals, k + 1)

I_indices(pairs) == [k \in 1..Len(pairs) |-> pairs[k][1]]

J_indices(pairs) == [k \in 1..Len(pairs) |-> pairs[k][2]]

NegAll(vals) == ndarray([k \in 1..Len(vals) |-> Neg(vals[k])])

\* lines 89, 116, 117: forces reset, then the two scatter-adds
ScatterMut(n, pairs, pf) ==
    AddAt(AddAt(Zeros(n), I_indices(pairs), pf, 1), J_indices(pairs), pf, 1)
Scatter(n, pairs, pf) ==
    AddAt(AddAt(Zeros(n), I_indices(pairs), pf, 1), J_indices(pairs), NegAll(pf), 1)

\* Particles.calculate_forces: the forces for positions p and masses m
ForcesOf(p, m) ==
    LET pairs == unique_pair_indices(Len(p))
    IN  Scatter(Len(p), pairs, PairForces(MinDisp(RawDisp(p, pairs)), m, pairs))

\* Particles.calculate_accelerations: forces / masses[:, np.newaxis]
AccelerationsOf(f, m) ==
    ndarray([i \in 1..Len(f) |-> <<FlDiv(f[i][1], m[i]), FlDiv(f[i][2], m[i])>>])

---------------------------------------------------------------------------
\* Particles: the energies

\* calculate_kinetic_energy: 0.5 * sum(m * |v|^2)
KineticOf(v, m, n) ==
    LET RECURSIVE Sum(_)
        Sum(i) == IF i = 0 THEN 0 ELSE Fl(Sum(i - 1) + m[i] * (v[i][1] * v[i][1] + v[i][2] * v[i][2]))
    IN  Fl(Sum(n) \div (2 * (G_SCALED \div EnergyScale)))

\* calculate_potential_energy, line 189: pos[i] - pos[j]
RawDispEnergy(p, pairs) ==
    ndarray([k \in 1..Len(pairs) |->
        LET pi == p[pairs[k][1]]
            pj == p[pairs[k][2]]
        IN  <<Fl(pi[1] - pj[1]), Fl(pi[2] - pj[2])>>])

\* line 195, under the square root: np.sum(np.square(d)) + EPS_SQUARED
RSquaredEnergyMut(d) == <<SumSq(d), 0>>
RSquaredEnergy(d) == <<SumSq(d), EPS_SQUARED>>

\* lines 195-201 for one pair: -G * mi * mj / sqrt(|d|^2 + EPS_SQUARED)
PairPotential(d, mi, mj) ==
    IF SumSq(d) = 0 THEN -(mi * mj * EnergyScale * EPS_INV)
    ELSE -((mi * mj * EnergyScale * Unit) \div ISqrt(SumSq(d)))

PotentialOf(p, m) ==
    LET pairs == unique_pair_indices(Len(p))
        md == MinDisp(RawDispEnergy(p, pairs))
        RECURSIVE Sum(_)
        Sum(k) == IF k = 0 THEN 0
                  ELSE Fl(Sum(k - 1) + Fl(PairPotential(md[k], m[pairs[k][1]], m[pairs[k][2]])))
    IN  Sum(Len(pairs))

---------------------------------------------------------------------------
\* The environment: what the random generator, the clock and the solver may produce.

\* coordinates of the candidate points, in units
PointSeq ==
    << <<Px(SCREEN_WIDTH - 1), Px(SCREEN_HEIGHT - 1)>>,
       <<Px(1), Px(1)>>,
       <<Px(3 * SCREEN_WIDTH + 10), Px(100 - SCREEN_HEIGHT)>>,
       <<-1, -1>>,
       <<Px(SCREEN_WIDTH \div 2 + 1), Px(SCREEN_HEIGHT \div 2 + 1)>> >>

\* clock.tick(60) / 1000.0: 16 or 17 ms at the target rate
TickValues == {1000 \div TARGET_FPS, 1000 \div TARGET_FPS + 1}

\* a frame that took longer than LOG_INTERVAL
SlowTick == LOG_INTERVAL + 20

\* the physics runs: every candidate, few frames
PhysEnv ==
    [points |-> PointSeq, spread |-> TRUE, counts |-> -1..MaxParticles, radii |-> {0, RADIUS},
     dts |-> {1000 \div TARGET_FPS, SlowTick}, frames |-> MaxFramesPhys]

\* the timing runs: one particle at rest at one point, many frames at the target rate
CadenceEnv ==
    [points |-> SubSeq(PointSeq, Len(PointSeq), Len(PointSeq)), spread |-> FALSE,
     counts |-> {-1, 1}, radii |-> {RADIUS}, dts |-> TickValues, frames |-> MaxFrames]

NonDecreasing(ix, n) == \A i \in 1..(n - 1) : ix[i] <= ix[i + 1]

\* candidate initial (n x 2) position arrays; from three particles on, one per multiset of points
Configs(n) ==
    { [i \in 1..n |-> env.points[ix[i]]] :
        ix \in {f \in [1..n -> 1..Len(env.points)] : n <= 2 \/ NonDecreasing(f, n)} }

\* the position arrays the solver may try: the points dealt out in turn from any start
TrialConfigs(n) ==
    { [i \in 1..n |-> env.points[((o + i - 2) % Len(env.points)) + 1]] : o \in 1..Len(env.points) }

\* candidate velocity arrays, pixel per second: at rest, or all components distinct
VelArrays(n) ==
    { [i \in 1..n |-> <<0, 0>>] }
    \cup (IF env.spread THEN { [i \in 1..n |-> <<VelLower + 20 * i, VelUpper - 20 * i>>] } ELSE {})

\* candidate mass arrays: all 4, or 1 for the first particle and 4 for the others
MassArrays(n) ==
    { [i \in 1..n |-> 4] }
    \cup (IF env.spread THEN { [i \in 1..n |-> IF i = 1 THEN MASS_LOWER_BOUND ELSE 4] } ELSE {})

\* the flat states solve_ivp may hand to derivative after the initial one
TrialStates(n) == { Pack(p, v) : p \in TrialConfigs(n), v \in VelArrays(n) }

\* lines 32-34: lower_bound <= pos < upper_bound per axis
InitialPlacement(p, r) ==
    \A i \in 1..Len(p) : \A c \in 1..NUM_DIM : Px(r) <= p[i][c] /\ p[i][c] < screen_dims[c] - Px(r)

InDomain(p) ==
    \A i \in 1..Len(p) : \A c \in 1..NUM_DIM : 0 <= p[i][c] /\ p[i][c] < screen_dims[c]

---------------------------------------------------------------------------
\* The state machine.

loggerVars == <<writer, file, rows>>

timeVars == <<dt, simulation_time, log_accumulator, log_calls>>

energyVars == <<kinetic_energy, potential_energy, total_energy>>

forceVars == <<forces, accelerations, raw_disp, min_disp, r_squared, pair_forces>>

solverVars == <<init_state, pos_before, vel_before, n_evals, y_flat, dydt, solver_status>>

configVars == <<exists, num_particles, radius, masses>>

InitWith(e) ==
    /\ pc = "start"
    /\ env = e
    /\ running = TRUE
    /\ frame = 0
    /\ dt = 0
    /\ simulation_time = 0
    /\ log_accumulator = 0
    /\ log_calls = 0
    /\ error = "none"
    /\ writer = "none"
    /\ file = "none"
    /\ rows = 0
    /\ exists = FALSE
    /\ num_particles = 0
    /\ radius = 0
    /\ masses = <<>>
    /\ pos = <<>>
    /\ vel = <<>>
    /\ forces = <<>>
    /\ accelerations = <<>>
    /\ kinetic_energy = 0
    /\ potential_energy = 0
    /\ total_energy = 0
    /\ raw_disp = <<>>
    /\ min_disp = <<>>
    /\ r_squared = <<>>
    /\ pair_forces = <<>>
    /\ init_state = <<>>
    /\ pos_before = <<>>
    /\ vel_before = <<>>
    /\ n_evals = 0
    /\ y_flat = <<>>
    /\ dydt = <<>>
    /\ solver_status = "idle"
    /\ wraps = 0
    /\ phases = <<>>
    /\ drawn = <<>>

Init == InitWith(PhysEnv)

InitCadence == InitWith(CadenceEnv)

\* SimulationLogger.__init__ (main.py line 38): open() and the header row either
\* succeed, or raise an IOError that the constructor catches
LoggerInit ==
    /\ pc = "start"
    /\ \/ /\ writer' = "active"
          /\ file' = "open"
       \/ /\ writer' = "none"
          /\ file' = "none"
    /\ pc' = "construct"
    /\ UNCHANGED <<env, running, frame, timeVars, error, rows, configVars, pos, vel,
                   forceVars, energyVars, solverVars, wraps, phases, drawn>>

\* Particles.__init__(n, r) (main.py line 45, before the try block).  A negative
\* n makes np.random.rand(n) raise ValueError; every other argument is accepted.
Construct(n, r) ==
    /\ pc = "construct"
    /\ IF n < 0
       THEN /\ error' = "ValueError"
            /\ pc' = "done"
            /\ UNCHANGED <<configVars, pos, vel, forces>>
       ELSE /\ exists' = TRUE
            /\ num_particles' = n
            /\ radius' = r
            /\ masses' \in MassArrays(n)
            /\ pos' \in {p \in Configs(n) : InitialPlacement(p, r)}
            /\ vel' \in VelArrays(n)
            /\ forces' = Zeros(n)
            /\ pc' = "loop"
            /\ UNCHANGED error
    /\ UNCHANGED <<env, running, frame, timeVars, loggerVars, accelerations, raw_disp,
                   min_disp, r_squared, pair_forces, energyVars, solverVars, wraps, phases, drawn>>

\* main.py lines 49-62: the loop test, the event poll, clock.tick and the two clocks.
\* The window is closed at the latest in frame env.frames.
FrameBegin(quit, tick) ==
    /\ pc = "loop"
    /\ running
    /\ frame < env.frames
    /\ quit \/ frame + 1 < env.frames
    /\ running' = ~quit
    /\ frame' = frame + 1
    /\ dt' = tick
    /\ simulation_time' = simulation_time + tick
    /\ log_accumulator' = log_accumulator + tick
    /\ wraps' = 0
    /\ phases' = <<>>
    /\ pc' = "step"
    /\ UNCHANGED <<env, log_calls, error, loggerVars, configVars, pos, vel, forceVars,
                   energyVars, solverVars, drawn>>

\* main.py line 49: running is False
LoopExit ==
    /\ pc = "loop"
    /\ ~running
    /\ pc' = "finally"
    /\ UNCHANGED <<env, running, frame, timeVars, error, loggerVars, configVars, pos, vel,
                   forceVars, energyVars, solverVars, wraps, phases, drawn>>

\* Particles.step_forward, line 133, and the call of solve_ivp
StepBegin ==
    /\ pc = "step"
    /\ init_state' = Pack(pos, vel)
    /\ pos_before' = pos
    /\ vel_before' = vel
    /\ n_evals' = 0
    /\ y_flat' = <<>>
    /\ dydt' = <<>>
    /\ solver_status' = "running"
    /\ pc' = "solving"
    /\ phases' = Append(phases, "integrate")
    /\ UNCHANGED <<env, running, frame, timeVars, error, loggerVars, configVars, pos, vel,
                   forceVars, energyVars, wraps, drawn>>

\* Particles.enforce_periodic_boundary_conditions: np.mod(pos, screen_dims)
WrapOf(p) == [i \in 1..Len(p) |-> <<NpMod(p[i][1], screen_dims[1]), NpMod(p[i][2], screen_dims[2])>>]

\* Particles.derivative(t, y_flat), with calculate_forces and calculate_accelerations:
\* lines 165-166, then line 170, then the forces, then the accelerations from these
\* forces; enforce_periodic_boundary_conditions is not called
DerivativeOnMut(y) ==
    LET current_pos == UnpackPos(y, num_particles)
        current_vel == UnpackVel(y, num_particles)
        pairs == unique_pair_indices(num_particles)
    IN  /\ y_flat' = y
        /\ pos' = WrapOf(current_pos)
        /\ raw_disp' = RawDisp(pos', pairs)
        /\ min_disp' = MinDisp(raw_disp')
        /\ r_squared' = RSquaredAll(min_disp')
        /\ pair_forces' = PairForces(min_disp', masses, pairs)
        /\ forces' = Scatter(num_particles, pairs, pair_forces')
        /\ accelerations' = AccelerationsOf(forces', masses)
        /\ dydt' = Flatten(current_vel) \o Flatten(accelerations')
        /\ wraps' = wraps + 1
        /\ phases' = phases \o <<"boundary", "forces", "accelerations">>
DerivativeOn(y) ==
    LET current_pos == UnpackPos(y, num_particles)
        current_vel == UnpackVel(y, num_particles)
        pairs == unique_pair_indices(num_particles)
    IN  /\ y_flat' = y
        /\ pos' = current_pos
        /\ raw_disp' = RawDisp(pos', pairs)
        /\ min_disp' = MinDisp(raw_disp')
        /\ r_squared' = RSquaredAll(min_disp')
        /\ pair_forces' = PairForces(min_disp', masses, pairs)
        /\ forces' = Scatter(num_particles, pairs, pair_forces')
        /\ accelerations' = AccelerationsOf(forces', masses)
        /\ dydt' = Flatten(current_vel) \o Flatten(accelerations')
        /\ wraps' = wraps
        /\ phases' = phases \o <<"forces", "accelerations">>

\* the solver calls derivative: first on y0 (RK45 evaluates f(t0, y0) when it is
\* set up), then on trial states of its choice
Derivative ==
    /\ pc = "solving"
    /\ n_evals < MaxEvals
    /\ \E y \in (IF n_evals = 0 THEN {init_state} ELSE TrialStates(num_particles)) :
           DerivativeOn(y)
    /\ n_evals' = n_evals + 1
    /\ UNCHANGED <<pc, env, running, frame, timeVars, error, loggerVars, configVars, vel,
                   energyVars, init_state, pos_before, vel_before, solver_status, drawn>>

\* solve_ivp returns and step_forward runs lines 146-150.  Either the solver
\* reached t = dt and sol.y holds one column, which is committed; or it failed
\* (status -1), sol.y holds no column and sol.y[:, 0] raises.  RK45 is
\* first-same-as-last: the last derivative call of an accepted step is made on
\* the state the step ends in, and the step that reaches t = dt is accepted, so
\* the column of sol.y is the argument of the last call (the model takes the
\* dense-output value at t = dt to be that state).
SolverReturn ==
    /\ pc = "solving"
    /\ \/ /\ n_evals >= 2
          /\ LET final_state_flat == y_flat
             IN  /\ pos' = UnpackPos(final_state_flat, num_particles)
                 /\ vel' = UnpackVel(final_state_flat, num_particles)
          /\ solver_status' = "finished"
          /\ pc' = "wrap"
          /\ init_state' = <<>>
          /\ pos_before' = <<>>
          /\ vel_before' = <<>>
          /\ y_flat' = <<>>
          /\ dydt' = <<>>
          /\ UNCHANGED error
       \/ /\ n_evals >= 1
          /\ solver_status' = "failed"
          /\ error' = "TypeError"
          /\ pc' = "finally"
          /\ UNCHANGED <<pos, vel, init_state, pos_before, vel_before, y_flat, dydt>>
    /\ UNCHANGED <<env, running, frame, timeVars, loggerVars, configVars, forceVars,
                   energyVars, n_evals, wraps, phases, drawn>>

\* main.py line 68
EnforcePeriodic ==
    /\ pc = "wrap"
    /\ pos' = WrapOf(pos)
    /\ wraps' = wraps + 1
    /\ phases' = Append(phases, "boundary")
    /\ pc' = "log"
    /\ UNCHANGED <<env, running, frame, timeVars, error, loggerVars, configVars, vel,
                   forceVars, energyVars, solverVars, drawn>>

\* main.py lines 71-80 with Particles.calculate_total_energy and
\* SimulationLogger.log: the row is written when the writer is there, and the
\* write either succeeds or raises OSError, which nothing catches
LogData ==
    /\ pc = "log"
    /\ IF log_accumulator > LOG_INTERVAL
       THEN LET ke == KineticOf(vel, masses, num_particles)
                pe == PotentialOf(pos, masses)
            IN  /\ kinetic_energy' = ke
                /\ potential_energy' = pe
                /\ total_energy' = Fl(pe + ke)
                /\ log_calls' = log_calls + 1
                /\ phases' = phases \o <<"energy", "emit">>
                /\ \/ /\ writer = "none"
                      /\ log_accumulator' = 0
                      /\ pc' = "render"
                      /\ UNCHANGED <<rows, error>>
                   \/ /\ writer = "active"
                      /\ rows' = rows + 1
                      /\ log_accumulator' = 0
                      /\ pc' = "render"
                      /\ UNCHANGED error
                   \/ /\ writer = "active"
                      /\ error' = "OSError"
                      /\ pc' = "finally"
                      /\ UNCHANGED <<rows, log_accumulator>>
       ELSE /\ pc' = "render"
            /\ UNCHANGED <<energyVars, log_calls, log_accumulator, rows, error, phases>>
    /\ UNCHANGED <<env, running, frame, dt, simulation_time, writer, file, configVars, pos, vel,
                   forceVars, solverVars, wraps, drawn>>

\* int(x) of a coordinate held in units: truncation toward zero
IntPx(x) == Sign(x) * (Abs(x) \div Unit)

\* main.py lines 83-96: every position is drawn
Render ==
    /\ pc = "render"
    /\ drawn' = [i \in 1..Len(pos) |-> <<IntPx(pos[i][1]), IntPx(pos[i][2])>>]
    /\ pc' = "loop"
    /\ phases' = Append(phases, "render")
    /\ UNCHANGED <<env, running, frame, timeVars, error, loggerVars, configVars, pos, vel,
                   forceVars, energyVars, solverVars, wraps>>

\* main.py lines 98-100: KeyboardInterrupt anywhere in the loop body
Interrupt ==
    /\ pc \in {"loop", "step", "solving", "wrap", "log", "render"}
    /\ running' = FALSE
    /\ pc' = "finally"
    /\ UNCHANGED <<env, frame, timeVars, error, loggerVars, configVars, pos, vel,
                   forceVars, energyVars, solverVars, wraps, phases, drawn>>

\* main.py lines 102-114 with SimulationLogger.close
Finally ==
    /\ pc = "finally"
    /\ file' = IF file = "open" THEN "closed" ELSE file
    /\ pc' = "done"
    /\ UNCHANGED <<env, running, frame, timeVars, error, writer, rows, configVars, pos, vel,
                   forceVars, energyVars, solverVars, wraps, phases, drawn>>

Next ==
    \/ LoggerInit
    \/ \E n \in env.counts, r \in env.radii : Construct(n, r)
    \/ \E quit \in BOOLEAN, tick \in env.dts : FrameBegin(quit, tick)
    \/ LoopExit
    \/ StepBegin
    \/ Derivative
    \/ SolverReturn
    \/ EnforcePeriodic
    \/ LogData
    \/ Render
    \/ Interrupt
    \/ Finally

Spec == Init /\ [][Next]_vars

SpecCadence == InitCadence /\ [][Next]_vars

---------------------------------------------------------------------------
\* Properties.

\* calculate_forces has run at least once on the object
Evaluated == exists /\ solver_status # "idle" /\ (pc = "solving" => n_evals >= 1)

\* pos is the array the last force evaluation was made on
AtEvaluation == pc = "solving" /\ n_evals >= 1

RECURSIVE SumComponent(_, _, _)
SumComponent(a, c, k) == IF k = 0 THEN 0 ELSE SumComponent(a, c, k - 1) + a[k][c]

RECURSIVE SumAbsComponent(_, _, _)
SumAbsComponent(a, c, k) == IF k = 0 THEN 0 ELSE SumAbsComponent(a, c, k - 1) + Abs(a[k][c])

\* the exact (unrounded) sum of the stored forces, per component
TotalForce == <<SumComponent(forces, 1, Len(forces)), SumComponent(forces, 2, Len(forces))>>

\* C1, as stated: after every force evaluation the forces of all particles sum to
\* zero in each component, and with two particles forces[0] = -forces[1].
C1_SumIsZero ==
    Evaluated =>
        /\ \A c \in 1..NUM_DIM : TotalForce[c] = 0
        /\ num_particles = 2 => forces[1] = Neg(forces[2])

\* C1, amended: with two particles forces[0] = -forces[1] exactly and with at most
\* two particles the sum is exactly zero; with more, each stored force is a rounded
\* sum, and the forces sum to zero up to that rounding: in each component the sum is
\* at most 2 (N-1) 2^-MantBits times the summed magnitudes of the pair forces (plus
\* one unit of the integer division).
C1_SumIsZeroUpToRounding ==
    Evaluated =>
        /\ num_particles = 2 => forces[1] = Neg(forces[2])
        /\ num_particles <= 2 => \A c \in 1..NUM_DIM : TotalForce[c] = 0
        /\ \A c \in 1..NUM_DIM :
              Abs(TotalForce[c]) <=
                 (2 * (num_particles - 1) * SumAbsComponent(pair_forces, c, Len(pair_forces)))
                    \div (2 ^ MantBits) + 1

\* C1, witness: three particles, a force evaluation whose pair forces are not zero
\* and whose stored forces do not sum to zero exactly.
C1_Witness ==
    /\ AtEvaluation
    /\ num_particles = 3
    /\ \E c \in 1..NUM_DIM : TotalForce[c] # 0
    /\ \E k \in 1..Len(pair_forces) : \A c \in 1..NUM_DIM : pair_forces[k][c] # 0

\* C2: in every force evaluation the corrected displacement of every pair is at
\* most half the domain extent on each axis and differs from the raw displacement
\* by a whole number of domain extents; particles at x = 1 and x = W - 1 are
\* separated by 2 along x.
C2_MinimumImage ==
    AtEvaluation =>
        \A k \in 1..Len(min_disp) :
            /\ \A c \in 1..NUM_DIM :
                  /\ 2 * Abs(min_disp[k][c]) <= screen_dims[c]
                  /\ (raw_disp[k][c] - min_disp[k][c]) % screen_dims[c] = 0
            /\ LET pr == unique_pair_indices(num_particles)[k]
               IN  {pos[pr[1]][1], pos[pr[2]][1]} = {Px(1), Px(SCREEN_WIDTH - 1)}
                      => Abs(min_disp[k][1]) = Px(2)

\* C2, witness: a force evaluation with one particle at x = 1 and one at x = W - 1.
C2_Witness ==
    /\ AtEvaluation
    /\ num_particles = 2
    /\ pos[1][1] = Px(SCREEN_WIDTH - 1)
    /\ pos[2][1] = Px(1)
    /\ raw_disp[1][1] = -Px(SCREEN_WIDTH - 2)
    /\ min_disp[1][1] = Px(2)

\* C3, as stated: whenever the driver reads the positions for the energy log or
\* for rendering, every position lies in [0, W) x [0, H).
C3_InDomainWhenRead == pc \in {"log", "render"} => InDomain(pos)

\* C4, as stated: the wrap leaves positions inside the domain unchanged, and for
\* every position array wrapping twice gives what wrapping once gives.
C4_WrapIdempotent ==
    /\ InDomain(pos) => WrapOf(pos) = pos
    /\ WrapOf(WrapOf(pos)) = WrapOf(pos)

\* C5: the state vector step_forward packs, sliced and reshaped as derivative and
\* step_forward do, gives back the positions and velocities it was packed from,
\* with their shape and order: the first derivative call, made on init_state,
\* sees exactly the committed positions and velocities.
C5_PackRoundTrip ==
    /\ pc = "solving" =>
          /\ Len(init_state) = 2 * NUM_DIM * num_particles
          /\ UnpackPos(init_state, num_particles) = pos_before
          /\ UnpackVel(init_state, num_particles) = vel_before
    /\ pc = "solving" /\ n_evals = 1 =>
          /\ pos = pos_before
          /\ UnpackVel(y_flat, num_particles) = vel
          /\ SubSeq(dydt, 1, NUM_DIM * num_particles) = Flatten(vel)

\* C5, witness: the first derivative call of a step on two or more particles whose
\* coordinates and velocity components all differ.
C5_Witness ==
    /\ pc = "solving"
    /\ n_evals = 1
    /\ num_particles >= 2
    /\ Cardinality({pos[1][1], pos[1][2], pos[2][1], pos[2][2]}) = 4
    /\ Cardinality({vel[1][1], vel[1][2], vel[2][1], vel[2][2]}) = 4

\* C6, as stated: when the solver fails, step_forward raises an IntegrationFailure
\* and the positions and velocities are those from before the step.
C6_FailureSurfaced ==
    solver_status = "failed" =>
        /\ error = "IntegrationFailure"
        /\ pos = pos_before
        /\ vel = vel_before

\* C7, as stated: no failure of the log destination, at construction or at a later
\* write, ends the driver loop.
C7_SinkFailureAbsorbed == error # "OSError"

\* C8, as stated: after any number of completed frames the number of log() calls
\* differs from LOG_FREQUENCY_HZ times the simulated seconds by at most 1.
C8_TenPerSecond ==
    pc = "loop" =>
        Abs(LOG_FREQUENCY_HZ * simulation_time - 1000 * log_calls) <= 1000

\* C9, as stated: no Particles object has fewer than one particle or a radius that
\* is not positive.
C9_ValidConfiguration == exists => num_particles >= 1 /\ radius > 0

\* C10, as stated: while the solver runs, and after it has failed, pos and vel hold
\* the values from before the step.
C10_DerivativePure ==
    (pc = "solving" \/ solver_status = "failed") => pos = pos_before /\ vel = vel_before

\* the squared distances calculate_potential_energy uses on the positions p
EnergyRSquared(p) ==
    LET md == MinDisp(RawDispEnergy(p, unique_pair_indices(Len(p))))
    IN  ndarray([k \in 1..Len(md) |-> RSquaredEnergy(md[k])])

\* the squared distances calculate_forces uses on the positions p
ForcesRSquared(p) == RSquaredAll(MinDisp(RawDisp(p, unique_pair_indices(Len(p)))))

\* C11: for every pair the squared distance calculate_potential_energy uses on
\* the current positions equals the r_squared calculate_forces uses on them (the
\* one it stored when it was evaluated on these positions, and the one it would
\* compute on the wrapped positions the energy is logged from), and once
\* calculate_total_energy has run, total_energy = kinetic_energy + potential_energy.
C11_SameDistance ==
    /\ AtEvaluation => EnergyRSquared(pos) = r_squared
    /\ pc = "render" => EnergyRSquared(pos) = ForcesRSquared(pos)
    /\ log_calls > 0 => total_energy = Fl(kinetic_energy + potential_energy)

\* C11, witness: a force evaluation on two or more particles in which a component
\* of a pair's displacement is exactly half the domain extent.
C11_Witness ==
    /\ AtEvaluation
    /\ num_particles >= 2
    /\ \E k \in 1..Len(raw_disp) : \E c \in 1..NUM_DIM :
           /\ 2 * Abs(raw_disp[k][c]) = screen_dims[c]
           /\ 2 * Abs(min_disp[k][c]) = screen_dims[c]
           /\ r_squared[k][1] > 0

\* the softening alone, as a squared distance
Softening == <<0, EPS_SQUARED>>

PhaseRank(ph) ==
    CASE ph = "integrate" -> 1
      [] ph \in {"forces", "accelerations"} -> 2
      [] ph = "boundary" -> 3
      [] ph = "energy" -> 4
      [] ph = "emit" -> 5
      [] ph = "render" -> 6

PhaseCount(ph) == Cardinality({i \in 1..Len(phases) : phases[i] = ph})

Ran(ph) == PhaseCount(ph) > 0

\* C13: in every frame the phases run in the order integrate, (forces,
\* accelerations) for each derivative evaluation, boundary, then optionally energy
\* and emit, then render; the accelerations a derivative evaluation returns are
\* those of the forces it has just computed; the wrap runs once per completed
\* frame, after the integration has returned and never while the solver runs;
\* the energy computation and the rendering come after the wrap of their frame.
C13_PhaseOrder ==
    /\ \A i \in 1..(Len(phases) - 1) : PhaseRank(phases[i]) <= PhaseRank(phases[i + 1])
    /\ \A ph \in {"integrate", "boundary", "energy", "emit", "render"} : PhaseCount(ph) <= 1
    /\ Len(phases) > 0 => phases[1] = "integrate"
    /\ \A i \in 1..Len(phases) :
          /\ phases[i] = "forces" => i < Len(phases) /\ phases[i + 1] = "accelerations"
          /\ phases[i] = "accelerations" => i > 1 /\ phases[i - 1] = "forces"
          /\ phases[i] = "emit" => i > 1 /\ phases[i - 1] = "energy"
    /\ AtEvaluation =>
          /\ accelerations = AccelerationsOf(forces, masses)
          /\ SubSeq(dydt, NUM_DIM * num_particles + 1, Len(dydt)) = Flatten(accelerations)
    /\ wraps = PhaseCount("boundary")
    /\ pc = "solving" => wraps = 0
    /\ Ran("boundary") => Ran("forces") /\ solver_status = "finished"
    /\ Ran("energy") \/ Ran("render") \/ pc \in {"log", "render"} => wraps = 1
    /\ pc = "loop" /\ frame > 0 => wraps = 1 /\ phases[Len(phases)] = "render"

\* C13, witness: a completed frame on two or more particles in which the energy
\* was computed and emitted.
C13_Witness ==
    /\ pc = "loop"
    /\ frame > 0
    /\ num_particles >= 2
    /\ phases = <<"integrate", "forces", "accelerations", "forces", "accelerations",
                  "boundary", "energy", "emit", "render">>
====
